---- MODULE Spec2Model ----
(***************************************************************************)
(* A model of the packet cryptography layer of OpenNHP/js-agent:           *)
(*   src/nhp-js/src/nhp.js         NHPHeader, buildNHPPacket,              *)
(*                                 parseNHPPacket, GlobalCounter           *)
(*   src/nhp-js/src/crypto/sm4.ts  sm4GcmSeal, sm4GcmOpen                  *)
(*   src/nhp-js/src/crypto/sm2.ts  sm2ECDH                                 *)
(*                                                                         *)
(* Byte buffers are sequences of integers 0..255.  TLA+ sequences start at *)
(* 1, so the byte at JavaScript offset k is element k+1.  A 32-bit word is *)
(* the sequence of its four bytes in big-endian order, the order DataView  *)
(* uses when no littleEndian argument is given.                            *)
(***************************************************************************)
EXTENDS Integers, Sequences, FiniteSets, TLC

VARIABLES
  host,           \* which free identifiers of nhp.js the host's global scope resolves
  GlobalCounter,  \* nhp.js:11, GlobalCounter[0]
  calls,          \* the buildNHPPacket calls: position, arguments, packet buffer
  consumed,       \* history: the values read from GlobalCounter[0] at nhp.js:116, in order
  parsed,         \* the last parseNHPPacket call: its argument and how its promise settled
  hdr,            \* an NHPHeader buffer the accessors are applied to directly
  hdrOp,          \* the last accessor applied to hdr and its arguments
  smOp,           \* the last sm4GcmSeal / sm4GcmOpen / sm2ECDH call and its outcome
  sealed,         \* the last sm4GcmSeal call that returned: its arguments and output
  fieldOp,        \* the last field setter applied to hdr: field, value, buffer before
  clock,          \* the host's clocks read by getUnixNano
  stamps          \* the getUnixNano calls made and the last two results

vars ==
  <<host, GlobalCounter, calls, consumed, parsed, hdr, hdrOp, smOp, sealed, fieldOp, clock, stamps>>

---------------------------------------------------------------------------
(* Bounds of the model *)

MaxBuilds == 2

---------------------------------------------------------------------------
(* Program constants *)

PacketBufferSize == 4096
HeaderSize == 240
TagSize == 16

NoError == "none"

---------------------------------------------------------------------------
(* Bytes and 32-bit words *)

Zeros(n) == [i \in 1..n |-> 0]

RECURSIVE And8(_, _, _)
And8(a, b, n) ==
  IF n = 0 THEN 0
  ELSE (IF a % 2 = 1 /\ b % 2 = 1 THEN 1 ELSE 0) + 2 * And8(a \div 2, b \div 2, n - 1)

RECURSIVE Or8(_, _, _)
Or8(a, b, n) ==
  IF n = 0 THEN 0
  ELSE (IF a % 2 = 1 \/ b % 2 = 1 THEN 1 ELSE 0) + 2 * Or8(a \div 2, b \div 2, n - 1)

RECURSIVE Xor8(_, _, _)
Xor8(a, b, n) ==
  IF n = 0 THEN 0
  ELSE (IF a % 2 # b % 2 THEN 1 ELSE 0) + 2 * Xor8(a \div 2, b \div 2, n - 1)

\* A JavaScript value that is undefined or a number: <<>> is undefined and
\* <<n>> the number n.
JsUndefined == <<>>
JsNumber(n) == <<n>>

\* ToInt32 of undefined or of a non-negative number below 2^31, as the four
\* bytes of the 32-bit result.
ToInt32(v) ==
  IF v = JsUndefined THEN Zeros(4)
  ELSE LET n == v[1]
       IN  <<(n \div 16777216) % 256, (n \div 65536) % 256, (n \div 256) % 256, n % 256>>

And32(x, y) == [i \in 1..4 |-> And8(x[i], y[i], 8)]
Or32(x, y)  == [i \in 1..4 |-> Or8(x[i], y[i], 8)]
Xor32(x, y) == [i \in 1..4 |-> Xor8(x[i], y[i], 8)]
Shl16(x)    == <<x[3], x[4], 0, 0>>
Shr16(x)    == <<0, 0, x[1], x[2]>>

\* The number a word of at most 16 significant bits stands for.
WordLow16(x) == x[3] * 256 + x[4]

\* Uint8Array.prototype.set(src, offset) and DataView get/setUint32(offset).
SetBytes(buf, offset, src) ==
  [i \in 1..Len(buf) |->
     IF i > offset /\ i <= offset + Len(src) THEN src[i - offset] ELSE buf[i]]

GetUint32(buf, offset) == [i \in 1..4 |-> buf[offset + i]]

---------------------------------------------------------------------------
(* NHPHeader, nhp.js:13-102 *)

\* A property read from an object literal: undefined when the key is absent.
Field(obj, key) == IF key \in DOMAIN obj THEN JsNumber(obj[key]) ELSE JsUndefined

\* nhp.js:16-19.  The constructor reads Header.SIZE; the class is named
\* NHPHeader and nhp.js declares no Header, so the identifier resolves in the
\* host's global scope: a ReferenceError unless the host defines it.
NHPHeader_constructor(h) ==
  IF h.Header THEN [err |-> NoError] ELSE [err |-> "ReferenceError"]

\* nhp.js:21-27
typeAndPayloadSize_get(buf) ==
  LET val == Xor32(GetUint32(buf, 0), GetUint32(buf, 4))
  IN  [type |-> WordLow16(Shr16(And32(val, <<255, 255, 0, 0>>))),
       size |-> WordLow16(And32(val, <<0, 0, 255, 255>>))]

\* nhp.js:32.  << binds tighter than &, and & tighter than |, so the
\* expression is (type & (0x0000FFFF << 16)) | (size & 0x0000FFFF).
TypeAndSizeWord(type, size) ==
  Or32(And32(ToInt32(type), Shl16(ToInt32(JsNumber(65535)))),
       And32(ToInt32(size), ToInt32(JsNumber(65535))))

\* nhp.js:29-36, given the word getRandomValues left in preamble[0].
typeAndPayloadSize_set(buf, arg, preamble) ==
  LET tns == Xor32(preamble, TypeAndSizeWord(Field(arg, "type"), Field(arg, "size")))
  IN  SetBytes(SetBytes(buf, 0, preamble), 4, tns)

\* nhp.js:31.  window.crypto.subtle has no getRandomValues in a standard
\* host (it is a method of window.crypto): a TypeError unless the host adds it.
GetRandomValues(h) ==
  IF h.subtleGetRandomValues THEN [err |-> NoError] ELSE [err |-> "TypeError"]

\* nhp.js:39
version_set(buf, major, minor) == SetBytes(buf, 8, <<major, minor>>)

\* nhp.js:59
counter_get(buf) == [i \in 1..8 |-> buf[16 + i]]

\* nhp.js:60.  setBigUint64(byteOffset, value) is called with the BigInt as
\* its byteOffset and no value: ToIndex of a BigInt throws a TypeError before
\* any byte is written.
counter_set(buf, v) == [err |-> "TypeError", buf |-> buf]

\* nhp.js:62-66
nonce_get(buf) == Zeros(4) \o counter_get(buf)

\* nhp.js:69-73
ephermeral_set(buf, bytes) == IF Len(bytes) = 32 THEN SetBytes(buf, 24, bytes) ELSE buf

\* nhp.js:76-80
identity_set(buf, bytes) == IF Len(bytes) = 80 THEN SetBytes(buf, 56, bytes) ELSE buf

\* nhp.js:83-87
static_set(buf, bytes) == IF Len(bytes) = 48 THEN SetBytes(buf, 136, bytes) ELSE buf

\* A variant of the timestamp setter that starts one byte early.
timestamp_set_OneByteEarly(buf, bytes) ==
  IF Len(bytes) = 24 THEN SetBytes(buf, 183, bytes) ELSE buf

\* nhp.js:90-94
timestamp_set(buf, bytes) == IF Len(bytes) = 24 THEN SetBytes(buf, 184, bytes) ELSE buf

\* nhp.js:97-101
hmac_set(buf, bytes) == IF Len(bytes) = 32 THEN SetBytes(buf, 208, bytes) ELSE buf

\* nhp.js:82, 89, 96
static_get(buf) == SubSeq(buf, 136 + 1, 136 + 48)
timestamp_get(buf) == SubSeq(buf, 184 + 1, 184 + 24)
hmac_get(buf) == SubSeq(buf, 208 + 1, 208 + 32)

---------------------------------------------------------------------------
(* buildNHPPacket, nhp.js:104-176 *)

\* Key import of crypto.js: resolves for a well-formed key, rejects otherwise.
base64To25519Key(k) ==
  IF k = "valid" THEN [err |-> NoError] ELSE [err |-> "InvalidKeySize"]

PacketTypes == {1, 2}
BuildTypes == {1}
\* The key arguments of a call: all well-formed, or one of them malformed.
KeyArguments ==
  {k \in [privateKey : {"valid", "malformed"}, publicKey : {"valid", "malformed"},
          remotePublicKey : {"valid", "malformed"}] :
     Cardinality({f \in {"privateKey", "publicKey", "remotePublicKey"} : k[f] = "malformed"}) <= 1}
MsgLengths == {0, 8, 3841}
Preambles == {<<0, 0, 0, 0>>, <<165, 90, 60, 195>>}

Fits(n) == HeaderSize + n + TagSize <= PacketBufferSize

\* No counter value read yet.
NoCounter == <<>>

\* mixed is what the call has fed to chainHasher (nhp.js:125, 130, 135, 148,
\* 169) and seals the chacha20Seal calls it has made (nhp.js:145, 163, 172),
\* each in the order made.
IdleCall ==
  [pc |-> "idle", type |-> 0, privateKey |-> "valid", publicKey |-> "valid",
   remotePublicKey |-> "valid", msgLen |-> 0, err |-> NoError,
   header |-> Zeros(HeaderSize), ctr |-> NoCounter, out |-> <<>>,
   mixed |-> <<>>, seals |-> <<>>]

Reject(c, e) == [c EXCEPT !.pc = "rejected", !.err = e]

\* A variant of the increment that evaluates to the old value.
CounterIncrement_Stale(c) == c

\* nhp.js:115
CounterIncrement(c) == c + 1

\* nhp.js:104-108: the buffer, the header view, and the first key import is
\* started; the function then waits at its first await.
BuildCall(i, type, keys, n) ==
  /\ calls[i].pc = "idle"
  /\ \A j \in 1..(i - 1) : calls[j].pc # "idle"
  /\ LET c == [IdleCall EXCEPT !.type = type, !.privateKey = keys.privateKey,
                               !.publicKey = keys.publicKey,
                               !.remotePublicKey = keys.remotePublicKey, !.msgLen = n]
         made == NHPHeader_constructor(host)
     IN  calls' = [calls EXCEPT ![i] =
                     IF made.err # NoError THEN Reject(c, made.err)
                     ELSE [c EXCEPT !.pc = "L108"]]
  /\ UNCHANGED <<host, GlobalCounter, consumed, parsed, hdr, hdrOp, smOp, sealed,
               fieldOp, clock, stamps>>

\* nhp.js:108-109: the private key import settles; the public key import starts.
Resume108(i) ==
  /\ calls[i].pc = "L108"
  /\ LET k == base64To25519Key(calls[i].privateKey)
     IN  calls' = [calls EXCEPT ![i] =
                     IF k.err # NoError THEN Reject(@, k.err) ELSE [@ EXCEPT !.pc = "L109"]]
  /\ UNCHANGED <<host, GlobalCounter, consumed, parsed, hdr, hdrOp, smOp, sealed,
               fieldOp, clock, stamps>>

\* nhp.js:109-110
Resume109(i) ==
  /\ calls[i].pc = "L109"
  /\ LET k == base64To25519Key(calls[i].publicKey)
     IN  calls' = [calls EXCEPT ![i] =
                     IF k.err # NoError THEN Reject(@, k.err) ELSE [@ EXCEPT !.pc = "L110"]]
  /\ UNCHANGED <<host, GlobalCounter, consumed, parsed, hdr, hdrOp, smOp, sealed,
               fieldOp, clock, stamps>>

\* nhp.js:110-116: the remote key import settles and the function runs on
\* without an await: the type/size word, the version, the counter increment
\* and the counter setter, which throws.  The throw ends the call: lines
\* 117-175 (the transcript hash, the three seals, the header fields written
\* from them, the return) are run by no call.
Resume110(i) ==
  /\ calls[i].pc = "L110"
  /\ LET c == calls[i]
         k == base64To25519Key(c.remotePublicKey)
         rnd == GetRandomValues(host)
     IN  IF k.err # NoError
         THEN /\ calls' = [calls EXCEPT ![i] = Reject(c, k.err)]
              /\ UNCHANGED <<GlobalCounter, consumed>>
         ELSE IF rnd.err # NoError
         THEN /\ calls' = [calls EXCEPT ![i] = Reject(c, rnd.err)]
              /\ UNCHANGED <<GlobalCounter, consumed>>
         ELSE \E preamble \in Preambles :
                LET payloadSize == c.msgLen + 16
                    h1 == typeAndPayloadSize_set(c.header,
                            [type |-> c.type, payloadSize |-> payloadSize], preamble)
                    h2 == version_set(h1, 1, 0)
                    g  == CounterIncrement(GlobalCounter)
                    w  == counter_set(h2, g)
                IN  /\ GlobalCounter' = g
                    /\ consumed' = Append(consumed, g)
                    /\ calls' = [calls EXCEPT ![i] =
                                   Reject([c EXCEPT !.header = w.buf, !.ctr = <<g>>], w.err)]
  /\ UNCHANGED <<host, parsed, hdr, hdrOp, smOp, sealed,
               fieldOp, clock, stamps>>

---------------------------------------------------------------------------
(* parseNHPPacket, nhp.js:178-180 *)

\* The body is empty: the promise is fulfilled with undefined whatever the bytes.
parseNHPPacket(bytes) == [settled |-> "fulfilled", value |-> JsUndefined, err |-> NoError]

\* A received datagram: a packet a conforming peer built for this agent,
\* with at most one bit of its 240-byte header flipped on the way.
\* The flipped bit is <<b>>, or <<>> when the datagram arrives as sent.  The
\* bits tried: the first bit of every eighth byte (which meets the preamble,
\* the version, the counter, the ephemeral key, the identity, the sealed
\* static key, the sealed timestamp and the hmac), one flag bit and the last bit.
NoFlip == <<>>
HeaderBits == 0..(HeaderSize * 8 - 1)
FlipBits == {b \in HeaderBits : b % 64 = 0} \cup {80, HeaderSize * 8 - 1}
Datagrams ==
  [type : PacketTypes, payloadLen : {0, 8}, flip : {NoFlip} \cup {<<b>> : b \in FlipBits}]

NoParse ==
  [bytes |-> [type |-> 0, payloadLen |-> 0, flip |-> NoFlip],
   settled |-> "none", value |-> JsUndefined, err |-> NoError]

ParseCall(d) ==
  /\ LET r == parseNHPPacket(d)
     IN  parsed' = [bytes |-> d, settled |-> r.settled, value |-> r.value, err |-> r.err]
  /\ UNCHANGED <<host, GlobalCounter, calls, consumed, hdr, hdrOp, smOp, sealed,
               fieldOp, clock, stamps>>

---------------------------------------------------------------------------
(* getUnixNano, utils.js:27-31 *)

\* Time is counted in ticks, TicksPerMs to the millisecond.  clock.wall is
\* the wall-clock time in ticks since the model's epoch, and clock.phase the
\* ticks by which the performance clock's millisecond boundaries lead those
\* of the wall clock: performance.now() counts from the time origin of the
\* page, which is not a whole number of wall-clock milliseconds.
TicksPerMs == 4
MaxTicks == 10
MaxStamps == 3

NsPerMs == 1000000

\* utils.js:28, Date.now(): whole milliseconds.
DateNow(c) == c.wall \div TicksPerMs

\* utils.js:29, performance.now() % 1, in ticks.
PerformanceNowFraction(c) == (c.wall + c.phase) % TicksPerMs

\* utils.js:30
getUnixNano(c) ==
  DateNow(c) * NsPerMs + ((PerformanceNowFraction(c) * NsPerMs) \div TicksPerMs)

\* Time passes between two reads of the clocks.
ClockTick ==
  /\ clock.wall < MaxTicks
  /\ clock' = [clock EXCEPT !.wall = @ + 1]
  /\ UNCHANGED <<host, GlobalCounter, calls, consumed, parsed, hdr, hdrOp, smOp, sealed,
                 fieldOp, stamps>>

GetUnixNanoCall ==
  /\ Len(stamps) < MaxStamps
  /\ stamps' = Append(stamps, getUnixNano(clock))
  /\ UNCHANGED <<host, GlobalCounter, calls, consumed, parsed, hdr, hdrOp, smOp, sealed,
                 fieldOp, clock>>

---------------------------------------------------------------------------
(* sm4GcmSeal and sm4GcmOpen, crypto/sm4.ts *)

SM4_KEY_SIZE == 16
SM4_GCM_NONCE_SIZE == 12
SM4_GCM_TAG_SIZE == 16

KeySizeError == "SM4 key must be 16 bytes"
NonceSizeError == "SM4-GCM nonce must be 12 bytes"
TooShortError == "Ciphertext too short"
TagMismatchError == "sm4.decrypt: authentication tag mismatch"

\* The GCM primitive of sm-crypto-v2, which sm4.ts calls and does not
\* implement, by its contract: a counter-mode stream keyed by key and iv,
\* XORed onto the data (so the output is as long as the input and the same
\* call inverts it), and a 16-byte tag that is a digest of key, iv,
\* associated data and ciphertext.
KeyStream(key, iv, i) ==
  (key[1 + (i % Len(key))] * 7 + iv[1 + (i % Len(iv))] * 3 + i) % 256

Sm4Ctr(data, key, iv) ==
  [i \in 1..Len(data) |-> Xor8(data[i], KeyStream(key, iv, i), 8)]

\* A position-weighted sum of the bytes lo..hi, by halving.
RECURSIVE WeightedSum(_, _, _)
WeightedSum(bytes, lo, hi) ==
  IF lo > hi THEN 0
  ELSE IF lo = hi THEN ((bytes[lo] + 1) * ((lo * lo * 131 + lo * 17 + 1) % 65521)) % 65521
  ELSE LET mid == (lo + hi) \div 2
       IN  (WeightedSum(bytes, lo, mid) + WeightedSum(bytes, mid + 1, hi)) % 65521

Digest(bytes) == WeightedSum(bytes, 1, Len(bytes))

Sm4GcmTag(key, iv, aad, ct) ==
  LET h == Digest(<<Len(key)>> \o key \o <<Len(iv)>> \o iv
                  \o <<Len(aad)>> \o aad \o <<Len(ct)>> \o ct)
  IN  [i \in 1..SM4_GCM_TAG_SIZE |->
         IF i = 1 THEN h \div 256 ELSE IF i = 2 THEN h % 256 ELSE (h * i + i) % 256]

\* sm4.encrypt(plaintext, key, {mode: 'gcm', iv, associatedData, outputTag: true})
Sm4Encrypt(plaintext, key, iv, aad) ==
  LET ct == Sm4Ctr(plaintext, key, iv)
  IN  [output |-> ct, tag |-> Sm4GcmTag(key, iv, aad, ct)]

\* sm4.decrypt(ciphertext, key, {mode: 'gcm', iv, associatedData, tag}): throws
\* when the tag does not verify.
Sm4Decrypt(ciphertext, key, iv, aad, tag) ==
  IF tag = Sm4GcmTag(key, iv, aad, ciphertext)
  THEN [err |-> NoError, output |-> Sm4Ctr(ciphertext, key, iv)]
  ELSE [err |-> TagMismatchError, output |-> <<>>]

\* What a call of this section yields: the error thrown (or none), the value
\* returned (empty when it threw) and how often it invoked the library.
Threw(e) == [err |-> e, value |-> <<>>, prim |-> 0]

\* A variant of sm4GcmSeal that writes the tag first and the ciphertext after it.
sm4GcmSeal_TagFirst(key, nonce, plaintext, additionalData) ==
  IF Len(key) # SM4_KEY_SIZE THEN Threw(KeySizeError)
  ELSE IF Len(nonce) # SM4_GCM_NONCE_SIZE THEN Threw(NonceSizeError)
  ELSE LET result == Sm4Encrypt(plaintext, key, nonce, additionalData)
       IN  [err |-> NoError, value |-> result.tag \o result.output, prim |-> 1]

\* sm4.ts:31-61
sm4GcmSeal(key, nonce, plaintext, additionalData) ==
  IF Len(key) # SM4_KEY_SIZE THEN Threw(KeySizeError)
  ELSE IF Len(nonce) # SM4_GCM_NONCE_SIZE THEN Threw(NonceSizeError)
  ELSE LET result == Sm4Encrypt(plaintext, key, nonce, additionalData)
           ciphertext == result.output
           tag == result.tag
           output == SetBytes(SetBytes(Zeros(Len(ciphertext) + Len(tag)), 0, ciphertext),
                              Len(ciphertext), tag)
       IN  [err |-> NoError, value |-> output, prim |-> 1]

\* A variant of sm4GcmOpen that does not hand the associated data to sm4.decrypt.
sm4GcmOpen_NoAad(key, nonce, ciphertextWithTag, additionalData) ==
  IF Len(key) # SM4_KEY_SIZE THEN Threw(KeySizeError)
  ELSE IF Len(nonce) # SM4_GCM_NONCE_SIZE THEN Threw(NonceSizeError)
  ELSE IF Len(ciphertextWithTag) < SM4_GCM_TAG_SIZE THEN Threw(TooShortError)
  ELSE LET n == Len(ciphertextWithTag)
           ciphertext == SubSeq(ciphertextWithTag, 1, n - SM4_GCM_TAG_SIZE)
           tag == SubSeq(ciphertextWithTag, n - SM4_GCM_TAG_SIZE + 1, n)
           plaintext == Sm4Decrypt(ciphertext, key, nonce, <<>>, tag)
       IN  [err |-> plaintext.err, value |-> plaintext.output, prim |-> 1]

\* sm4.ts:72-101
sm4GcmOpen(key, nonce, ciphertextWithTag, additionalData) ==
  IF Len(key) # SM4_KEY_SIZE THEN Threw(KeySizeError)
  ELSE IF Len(nonce) # SM4_GCM_NONCE_SIZE THEN Threw(NonceSizeError)
  ELSE IF Len(ciphertextWithTag) < SM4_GCM_TAG_SIZE THEN Threw(TooShortError)
  ELSE LET n == Len(ciphertextWithTag)
           ciphertext == SubSeq(ciphertextWithTag, 1, n - SM4_GCM_TAG_SIZE)
           tag == SubSeq(ciphertextWithTag, n - SM4_GCM_TAG_SIZE + 1, n)
           plaintext == Sm4Decrypt(ciphertext, key, nonce, additionalData, tag)
       IN  [err |-> plaintext.err, value |-> plaintext.output, prim |-> 1]

---------------------------------------------------------------------------
(* sm2ECDH, crypto/sm2.ts *)

SM2_PRIVATE_KEY_SIZE == 32
SM2_PUBLIC_KEY_SIZE == 64

PrivateKeySizeError == "SM2 private key must be 32 bytes"
PublicKeySizeError == "SM2 public key must be 64 bytes"

\* bytesToHex of crypto/utils: two hex digits (0..15) per byte.
bytesToHex(bytes) ==
  [i \in 1..(2 * Len(bytes)) |->
     IF i % 2 = 1 THEN bytes[(i + 1) \div 2] \div 16 ELSE bytes[i \div 2] % 16]

\* sm2.ecdh of sm-crypto-v2 by its contract: the point (X then Y, 64 bytes)
\* the private scalar and the peer's point agree on.  In this model a scalar
\* is the first byte of the private key, the point of scalar s repeats s, and
\* the two sides agree on the product of their scalars.
Sm2Ecdh(privateKeyHex, publicKeyHex) ==
  LET a == privateKeyHex[1] * 16 + privateKeyHex[2]
      b == publicKeyHex[3] * 16 + publicKeyHex[4]
  IN  [i \in 1..64 |-> (a * b + (IF i <= 32 THEN 0 ELSE 1)) % 251]

\* A variant of sm2ECDH without the public key size check.
sm2ECDH_NoPublicKeyCheck(privateKey, publicKey) ==
  IF Len(privateKey) # SM2_PRIVATE_KEY_SIZE THEN Threw(PrivateKeySizeError)
  ELSE LET privateKeyHex == bytesToHex(privateKey)
           publicKeyHex == <<0, 4>> \o bytesToHex(publicKey)
           sharedSecret == Sm2Ecdh(privateKeyHex, publicKeyHex)
       IN  [err |-> NoError, value |-> SubSeq(sharedSecret, 1, 32), prim |-> 1]

\* sm2.ts:98-116
sm2ECDH(privateKey, publicKey) ==
  IF Len(privateKey) # SM2_PRIVATE_KEY_SIZE THEN Threw(PrivateKeySizeError)
  ELSE IF Len(publicKey) # SM2_PUBLIC_KEY_SIZE THEN Threw(PublicKeySizeError)
  ELSE LET privateKeyHex == bytesToHex(privateKey)
           publicKeyHex == <<0, 4>> \o bytesToHex(publicKey)
           sharedSecret == Sm2Ecdh(privateKeyHex, publicKeyHex)
       IN  [err |-> NoError, value |-> SubSeq(sharedSecret, 1, 32), prim |-> 1]

---------------------------------------------------------------------------
(* The packet builder and parser as a state machine *)

Hosts == [Header : BOOLEAN, subtleGetRandomValues : BOOLEAN]

NoHdrOp == [op |-> "none", type |-> 0, size |-> 0, preamble |-> Zeros(4), err |-> NoError]
NoSmOp ==
  [op |-> "none", key |-> <<>>, nonce |-> <<>>, data |-> <<>>, aad |-> <<>>,
   err |-> NoError, value |-> <<>>, prim |-> 0]
NoSealed == [key |-> <<>>, nonce |-> <<>>, plaintext |-> <<>>, aad |-> <<>>, out |-> <<>>]
NoFieldOp == [field |-> "none", value |-> <<>>, before |-> <<>>]

Init ==
  /\ host \in Hosts
  /\ GlobalCounter = 0
  /\ calls = [i \in 1..MaxBuilds |-> IdleCall]
  /\ consumed = <<>>
  /\ parsed = NoParse
  /\ hdr = Zeros(HeaderSize)
  /\ hdrOp = NoHdrOp
  /\ smOp = NoSmOp
  /\ sealed = NoSealed
  /\ fieldOp = NoFieldOp
  /\ clock = [wall |-> 0, phase |-> 0]
  /\ stamps = <<>>

Next ==
  \/ \E i \in 1..MaxBuilds, type \in BuildTypes, keys \in KeyArguments, n \in MsgLengths :
       BuildCall(i, type, keys, n)
  \/ \E i \in 1..MaxBuilds : Resume108(i)
  \/ \E i \in 1..MaxBuilds : Resume109(i)
  \/ \E i \in 1..MaxBuilds : Resume110(i)

Spec == Init /\ [][Next]_vars

(* parseNHPPacket applied to received datagrams *)

NextParse == \E d \in Datagrams : ParseCall(d)

SpecParse == Init /\ [][NextParse]_vars

(* The NHPHeader accessors applied to a constructed header *)

HeaderTypes == {0, 1, 2, 258, 65535}
HeaderSizes == {0, 16, 24, 4095, 65535}
HeaderPreambles == Preambles \cup {<<255, 255, 255, 255>>, <<18, 52, 86, 120>>}

\* header.typeAndPayloadSize = {type, size}, nhp.js:29-36
SetTypeAndPayloadSize(type, size, preamble) ==
  /\ LET rnd == GetRandomValues(host)
     IN  IF rnd.err # NoError
         THEN /\ hdr' = hdr
              /\ hdrOp' = [op |-> "typeAndPayloadSize", type |-> type, size |-> size,
                           preamble |-> Zeros(4), err |-> rnd.err]
         ELSE /\ hdr' = typeAndPayloadSize_set(hdr, [type |-> type, size |-> size], preamble)
              /\ hdrOp' = [op |-> "typeAndPayloadSize", type |-> type, size |-> size,
                           preamble |-> preamble, err |-> NoError]
  /\ UNCHANGED <<host, GlobalCounter, calls, consumed, parsed, smOp, sealed,
               fieldOp, clock, stamps>>

\* An NHPHeader exists only where its constructor returned.
InitHeader ==
  /\ Init
  /\ NHPHeader_constructor(host).err = NoError

NextHeader ==
  \E type \in HeaderTypes, size \in HeaderSizes, preamble \in HeaderPreambles :
    SetTypeAndPayloadSize(type, size, preamble)

SpecHeader == InitHeader /\ [][NextHeader]_vars

(* The NHPHeader field setters applied to a constructed header *)

FieldNames == {"ephermeral", "identity", "static", "timestamp", "hmac"}

\* The width each setter compares the value's length with.
FieldWidth(field) ==
  CASE field = "ephermeral" -> 32
    [] field = "identity"   -> 80
    [] field = "static"     -> 48
    [] field = "timestamp"  -> 24
    [] field = "hmac"       -> 32

\* The values given to a setter: of the field's width, one byte short, one
\* byte long, and empty.
FieldValues(field) ==
  LET w == FieldWidth(field)
  IN  {[i \in 1..w |-> (7 * w + i) % 256], [i \in 1..(w - 1) |-> 238],
       [i \in 1..(w + 1) |-> 221], <<>>}

\* header.<field> = value
SetField(field, value) ==
  /\ hdr' = CASE field = "ephermeral" -> ephermeral_set(hdr, value)
               [] field = "identity"   -> identity_set(hdr, value)
               [] field = "static"     -> static_set(hdr, value)
               [] field = "timestamp"  -> timestamp_set(hdr, value)
               [] field = "hmac"       -> hmac_set(hdr, value)
  /\ fieldOp' = [field |-> field, value |-> value, before |-> hdr]
  /\ UNCHANGED <<host, GlobalCounter, calls, consumed, parsed, hdrOp, smOp, sealed,
                 clock, stamps>>

\* The header lies at the start of the packet buffer, whose bytes are zero
\* (a fresh buffer) or something else (a buffer used before); PayloadBytes of
\* the buffer after the header are kept.
PayloadBytes == 8
InitFields ==
  /\ host \in Hosts
  /\ NHPHeader_constructor(host).err = NoError
  /\ hdr \in {Zeros(HeaderSize + PayloadBytes),
               [i \in 1..(HeaderSize + PayloadBytes) |-> (i * 3) % 256]}
  /\ GlobalCounter = 0
  /\ calls = [i \in 1..MaxBuilds |-> IdleCall]
  /\ consumed = <<>>
  /\ parsed = NoParse
  /\ hdrOp = NoHdrOp
  /\ smOp = NoSmOp
  /\ sealed = NoSealed
  /\ fieldOp = NoFieldOp
  /\ clock = [wall |-> 0, phase |-> 0]
  /\ stamps = <<>>

NextFields == \E field \in FieldNames : \E value \in FieldValues(field) : SetField(field, value)

SpecFields == InitFields /\ [][NextFields]_vars

(* getUnixNano called as time passes *)

InitClock ==
  /\ host = [Header |-> FALSE, subtleGetRandomValues |-> FALSE]
  /\ GlobalCounter = 0
  /\ calls = [i \in 1..MaxBuilds |-> IdleCall]
  /\ consumed = <<>>
  /\ parsed = NoParse
  /\ hdr = Zeros(HeaderSize)
  /\ hdrOp = NoHdrOp
  /\ smOp = NoSmOp
  /\ sealed = NoSealed
  /\ fieldOp = NoFieldOp
  /\ clock \in [wall : {0}, phase : 0..(TicksPerMs - 1)]
  /\ stamps = <<>>

NextClock == ClockTick \/ GetUnixNanoCall

SpecClock == InitClock /\ [][NextClock]_vars

(* The GMSM primitives called directly *)

Bytes(n, b) == [i \in 1..n |-> b]

Sm4Keys == {Bytes(16, 17), Bytes(16, 34), Bytes(15, 17), Bytes(17, 17)}
Sm4Nonces == {Bytes(12, 5), Bytes(11, 5)}
Plaintexts == {<<>>, <<1, 2, 3, 4, 5>>}
AssociatedData == {<<>>, <<170>>, <<187>>, <<170, 187, 204>>}
Sm2PrivateKeys == {Bytes(32, 3), Bytes(32, 5), Bytes(31, 3)}
Sm2PublicKeys == {Bytes(64, 3), Bytes(64, 5), Bytes(63, 3), Bytes(65, 5)}

Sm4SealCall(key, nonce, plaintext, aad) ==
  /\ LET r == sm4GcmSeal(key, nonce, plaintext, aad)
     IN  /\ smOp' = [op |-> "sm4GcmSeal", key |-> key, nonce |-> nonce, data |-> plaintext,
                     aad |-> aad, err |-> r.err, value |-> r.value, prim |-> r.prim]
         /\ sealed' = IF r.err = NoError
                      THEN [key |-> key, nonce |-> nonce, plaintext |-> plaintext,
                            aad |-> aad, out |-> r.value]
                      ELSE sealed
  /\ UNCHANGED <<host, GlobalCounter, calls, consumed, parsed, hdr, hdrOp,
               fieldOp, clock, stamps>>

\* sm4GcmOpen on what the last seal returned, or on three bytes.
OpenInputs == {<<1, 2, 3>>} \cup (IF sealed = NoSealed THEN {} ELSE {sealed.out})

Sm4OpenCall(key, nonce, input, aad) ==
  /\ LET r == sm4GcmOpen(key, nonce, input, aad)
     IN  smOp' = [op |-> "sm4GcmOpen", key |-> key, nonce |-> nonce, data |-> input,
                  aad |-> aad, err |-> r.err, value |-> r.value, prim |-> r.prim]
  /\ UNCHANGED <<host, GlobalCounter, calls, consumed, parsed, hdr, hdrOp, sealed,
               fieldOp, clock, stamps>>

Sm2EcdhCall(privateKey, publicKey) ==
  /\ LET r == sm2ECDH(privateKey, publicKey)
     IN  smOp' = [op |-> "sm2ECDH", key |-> privateKey, nonce |-> <<>>, data |-> publicKey,
                  aad |-> <<>>, err |-> r.err, value |-> r.value, prim |-> r.prim]
  /\ UNCHANGED <<host, GlobalCounter, calls, consumed, parsed, hdr, hdrOp, sealed,
               fieldOp, clock, stamps>>

NextSM ==
  \/ \E key \in Sm4Keys, nonce \in Sm4Nonces, plaintext \in Plaintexts, aad \in AssociatedData :
       Sm4SealCall(key, nonce, plaintext, aad)
  \/ \E key \in Sm4Keys, nonce \in Sm4Nonces, input \in OpenInputs, aad \in AssociatedData :
       Sm4OpenCall(key, nonce, input, aad)
  \/ \E privateKey \in Sm2PrivateKeys, publicKey \in Sm2PublicKeys :
       Sm2EcdhCall(privateKey, publicKey)

\* sm4.ts and sm2.ts read nothing of the host's global scope.
InitSM ==
  /\ Init
  /\ host = [Header |-> FALSE, subtleGetRandomValues |-> FALSE]

SpecSM == InitSM /\ [][NextSM]_vars

---------------------------------------------------------------------------
(* Claims about buildNHPPacket and parseNHPPacket *)

Settled(c) == c.pc \in {"rejected", "returned"}
ValidKeys(c) ==
  c.privateKey = "valid" /\ c.publicKey = "valid" /\ c.remotePublicKey = "valid"
ReachedIncrement == {i \in 1..MaxBuilds : calls[i].ctr # NoCounter}

\* The 8 big-endian bytes of a counter value below 2^31.
BigUint64Bytes(n) == Zeros(4) \o ToInt32(JsNumber(n))

\* C1 (as claimed): every build call with valid keys and a payload that fits
\* returns bytes, and parseNHPPacket of those bytes is fulfilled with the
\* packet type, the sender's public key and the payload of the call.
C1_RoundTrip ==
  \A i \in 1..MaxBuilds :
    (Settled(calls[i]) /\ ValidKeys(calls[i]) /\ Fits(calls[i].msgLen)) =>
      /\ calls[i].pc = "returned"
      /\ parseNHPPacket(calls[i].out).value =
           <<[type |-> calls[i].type, publicKey |-> calls[i].publicKey,
              payloadLen |-> calls[i].msgLen]>>

\* C2: the values read from GlobalCounter by the builds that reach the
\* increment are strictly increasing in the order they were read, no two
\* builds hold the same value, each such build advanced the counter by exactly
\* one, and the counter is the last value handed out (never rolled back or
\* reset), whatever the interleaving and although every such build fails.
C2_CounterUnique ==
  /\ \A a, b \in 1..Len(consumed) : a < b => consumed[a] < consumed[b]
  /\ \A i, j \in ReachedIncrement : i # j => calls[i].ctr # calls[j].ctr
  /\ \A i \in ReachedIncrement : \E a \in 1..Len(consumed) : calls[i].ctr = <<consumed[a]>>
  /\ Len(consumed) = Cardinality(ReachedIncrement)
  /\ GlobalCounter = Len(consumed)
  /\ consumed # <<>> => GlobalCounter = consumed[Len(consumed)]

\* C2 witness: two builds interleaved at their awaits; the one called second
\* reached the increment first, and both failed after it.
C2_Witness ==
  /\ MaxBuilds >= 2
  /\ calls[1].ctr = <<2>> /\ calls[2].ctr = <<1>>
  /\ calls[1].pc = "rejected" /\ calls[2].pc = "rejected"

\* C3 (as claimed): a build that consumed a counter value holds that value in
\* header bytes 16..24, and its nonce is four zero bytes followed by them.
C3_NonceFromCounter ==
  \A i \in ReachedIncrement :
    /\ counter_get(calls[i].header) = BigUint64Bytes(calls[i].ctr[1])
    /\ nonce_get(calls[i].header) = Zeros(4) \o BigUint64Bytes(calls[i].ctr[1])

\* C4 (as claimed): a build whose payload does not fit the packet buffer fails
\* with PayloadTooLarge and has not touched GlobalCounter.
C4_OversizeRejected ==
  \A i \in 1..MaxBuilds :
    (Settled(calls[i]) /\ ValidKeys(calls[i]) /\ ~Fits(calls[i].msgLen)) =>
      /\ calls[i].pc = "rejected"
      /\ calls[i].err = "PayloadTooLarge"
      /\ calls[i].ctr = NoCounter

\* C5 (as claimed): parsing a packet with one header bit flipped is rejected
\* with MalformedPacket or AuthenticationFailure.
C5_TamperDetected ==
  (parsed.settled # "none" /\ parsed.bytes.flip # NoFlip) =>
    /\ parsed.settled = "rejected"
    /\ parsed.err \in {"MalformedPacket", "AuthenticationFailure"}

\* C6 (as claimed): a build with valid keys and a payload of n bytes that fits
\* completes without error and returns exactly 240 + n + 16 bytes.
C6_PacketLength ==
  \A i \in 1..MaxBuilds :
    (Settled(calls[i]) /\ ValidKeys(calls[i]) /\ Fits(calls[i].msgLen)) =>
      /\ calls[i].pc = "returned"
      /\ calls[i].err = NoError
      /\ Len(calls[i].out) = HeaderSize + calls[i].msgLen + TagSize

---------------------------------------------------------------------------
(* Claims about the NHPHeader accessors *)

\* C7 (as claimed): once the typeAndPayloadSize setter has written (type,
\* size) under a preamble, the getter returns the same type and size, the
\* word at offset 0 is the preamble and the word at offset 4 is the preamble
\* XOR ((type << 16) | size).
C7_TypeSizeRoundTrip ==
  (hdrOp.op = "typeAndPayloadSize" /\ hdrOp.err = NoError) =>
    /\ typeAndPayloadSize_get(hdr) = [type |-> hdrOp.type, size |-> hdrOp.size]
    /\ GetUint32(hdr, 0) = hdrOp.preamble
    /\ GetUint32(hdr, 4) =
         Xor32(hdrOp.preamble,
               <<hdrOp.type \div 256, hdrOp.type % 256, hdrOp.size \div 256, hdrOp.size % 256>>)

---------------------------------------------------------------------------
(* Claims about sm4GcmSeal, sm4GcmOpen and sm2ECDH *)

\* C8: a call of sm4GcmSeal or sm4GcmOpen whose key is not 16 bytes or whose
\* nonce is not 12 bytes, and a call of sm2ECDH whose private key is not 32
\* bytes or whose public key is not 64 bytes, throws a size error, returns
\* nothing and has not invoked the library.
C8_SizeValidated ==
  /\ (smOp.op \in {"sm4GcmSeal", "sm4GcmOpen"} /\ (Len(smOp.key) # 16 \/ Len(smOp.nonce) # 12)) =>
       /\ smOp.err \in {KeySizeError, NonceSizeError}
       /\ smOp.value = <<>>
       /\ smOp.prim = 0
  /\ (smOp.op = "sm2ECDH" /\ (Len(smOp.key) # 32 \/ Len(smOp.data) # 64)) =>
       /\ smOp.err \in {PrivateKeySizeError, PublicKeySizeError}
       /\ smOp.value = <<>>
       /\ smOp.prim = 0

\* C8 witness: sm2ECDH was called with a 32-byte private key and a 63-byte
\* public key and threw the public key size error.
C8_Witness ==
  /\ smOp.op = "sm2ECDH"
  /\ Len(smOp.key) = 32 /\ Len(smOp.data) = 63
  /\ smOp.err = PublicKeySizeError

\* C9: sm4GcmSeal with a 16-byte key and a 12-byte nonce returns plaintext
\* length + 16 bytes, the ciphertext followed by its tag, and sm4GcmOpen with
\* the same key, nonce and associated data returns the plaintext from them.
C9_SealOpenRoundTrip ==
  /\ (smOp.op = "sm4GcmSeal" /\ Len(smOp.key) = 16 /\ Len(smOp.nonce) = 12) =>
       LET n == Len(smOp.data)
           o == sm4GcmOpen(smOp.key, smOp.nonce, smOp.value, smOp.aad)
       IN  /\ smOp.err = NoError
           /\ Len(smOp.value) = n + 16
           /\ SubSeq(smOp.value, 1, n) = Sm4Encrypt(smOp.data, smOp.key, smOp.nonce, smOp.aad).output
           /\ SubSeq(smOp.value, n + 1, n + 16) = Sm4Encrypt(smOp.data, smOp.key, smOp.nonce, smOp.aad).tag
           /\ o.err = NoError
           /\ o.value = smOp.data
  /\ (/\ smOp.op = "sm4GcmOpen" /\ sealed # NoSealed /\ smOp.data = sealed.out
      /\ smOp.key = sealed.key /\ smOp.nonce = sealed.nonce /\ smOp.aad = sealed.aad) =>
       /\ smOp.err = NoError
       /\ smOp.value = sealed.plaintext

\* C9 witness: a five-byte plaintext sealed with three bytes of associated
\* data was opened with the same key, nonce and associated data.
C9_Witness ==
  /\ smOp.op = "sm4GcmOpen" /\ smOp.data = sealed.out
  /\ sealed.plaintext = <<1, 2, 3, 4, 5>> /\ sealed.aad = <<170, 187, 204>>
  /\ smOp.key = sealed.key /\ smOp.nonce = sealed.nonce /\ smOp.aad = sealed.aad
  /\ smOp.value = <<1, 2, 3, 4, 5>>

\* C10: sm4GcmOpen of a sealed output with a well-sized key that is not the
\* sealing key, or with associated data that is not the sealing associated
\* data, throws the tag mismatch error, which is not a size error, and
\* returns nothing.
C10_OpenFailsClosed ==
  (/\ smOp.op = "sm4GcmOpen" /\ sealed # NoSealed /\ smOp.data = sealed.out
   /\ Len(smOp.key) = 16 /\ Len(smOp.nonce) = 12
   /\ (smOp.key # sealed.key \/ smOp.aad # sealed.aad)) =>
    /\ smOp.err = TagMismatchError
    /\ smOp.err \notin {KeySizeError, NonceSizeError, NoError}
    /\ smOp.value = <<>>

\* C10 witness: a sealed five-byte plaintext was opened with the sealing key
\* and other associated data, and the call threw the tag mismatch error.
C10_Witness ==
  /\ smOp.op = "sm4GcmOpen" /\ smOp.data = sealed.out
  /\ sealed.plaintext = <<1, 2, 3, 4, 5>>
  /\ smOp.key = sealed.key /\ smOp.aad # sealed.aad
  /\ smOp.err = TagMismatchError

---------------------------------------------------------------------------
(* Claims about the order of parseNHPPacket's checks *)

\* C11 (as claimed): a packet whose header tag does not match the header it
\* arrives with (one bit of the tag or of the bytes it covers was flipped) is
\* rejected by parseNHPPacket with MalformedPacket, never with
\* AuthenticationFailure and never after a decryption step.
C11_TagCheckedFirst ==
  (parsed.settled # "none" /\ parsed.bytes.flip # NoFlip) =>
    /\ parsed.settled = "rejected"
    /\ parsed.err = "MalformedPacket"
    /\ parsed.err # "AuthenticationFailure"

---------------------------------------------------------------------------
(* Claims about what buildNHPPacket leaves in the packet *)

\* C12 (as claimed): a build with valid keys and a payload that fits returns
\* a packet whose hmac field, header bytes 208..240, holds a tag and is not
\* left at its initial 32 zero bytes.
C12_HeaderTagWritten ==
  \A i \in 1..MaxBuilds :
    (Settled(calls[i]) /\ ValidKeys(calls[i]) /\ Fits(calls[i].msgLen)) =>
      /\ calls[i].pc = "returned"
      /\ hmac_get(calls[i].header) # Zeros(32)

\* C13 (as claimed): a build with valid keys and a payload that fits returns
\* a packet whose static field, header bytes 136..184, holds the 48 bytes of
\* the first seal and whose timestamp field, bytes 184..208, holds the 24
\* bytes of the second seal: neither seal was dropped by its setter.
C13_SealedFieldsStored ==
  \A i \in 1..MaxBuilds :
    (Settled(calls[i]) /\ ValidKeys(calls[i]) /\ Fits(calls[i].msgLen)) =>
      /\ calls[i].pc = "returned"
      /\ Len(calls[i].seals) >= 2
      /\ static_get(calls[i].header) = calls[i].seals[1].out
      /\ timestamp_get(calls[i].header) = calls[i].seals[2].out

\* C14 (as claimed): a build with valid keys and a payload that fits folds
\* the remote public key, the ephemeral public key, the sealed static key and
\* the sealed timestamp into the transcript hash, in this order, after the
\* hash seed, and hands each of its three seals the transcript hash of what
\* was folded in before it: the seed and two keys to the first, the sealed
\* static key too to the second, and all five to the payload seal.
C14_TranscriptBinding ==
  \A i \in 1..MaxBuilds :
    (Settled(calls[i]) /\ ValidKeys(calls[i]) /\ Fits(calls[i].msgLen)) =>
      /\ calls[i].pc = "returned"
      /\ calls[i].mixed =
           <<"InitialHashString", "remotePublicKey", "ephemeralPublicKey",
             "sealedStatic", "sealedTimestamp">>
      /\ Len(calls[i].seals) = 3
      /\ calls[i].seals[1].aad = SubSeq(calls[i].mixed, 1, 3)
      /\ calls[i].seals[2].aad = SubSeq(calls[i].mixed, 1, 4)
      /\ calls[i].seals[3].aad = SubSeq(calls[i].mixed, 1, 5)

C16_BuildWritesTypeAndSize ==
  \A i \in ReachedIncrement :
    typeAndPayloadSize_get(calls[i].header) =
      [type |-> calls[i].type, size |-> calls[i].msgLen + TagSize]

---------------------------------------------------------------------------
(* Claims about getUnixNano *)

\* C17 (as claimed): of any two getUnixNano calls, the later one does not
\* return less than the earlier one.
C17_TimestampMonotonic ==
  \A a, b \in 1..Len(stamps) : a < b => stamps[a] <= stamps[b]

---------------------------------------------------------------------------
(* Claims about the NHPHeader field setters *)

\* The byte range the header layout gives each field: first offset and width.
FieldRange(field) ==
  CASE field = "ephermeral" -> [lo |-> 24,  width |-> 32]
    [] field = "identity"   -> [lo |-> 56,  width |-> 80]
    [] field = "static"     -> [lo |-> 136, width |-> 48]
    [] field = "timestamp"  -> [lo |-> 184, width |-> 24]
    [] field = "hmac"       -> [lo |-> 208, width |-> 32]

\* C18: a field setter leaves the buffer's length and every byte outside the
\* field's range (ephermeral 24..56, identity 56..136, static 136..184,
\* timestamp 184..208, hmac 208..240) as they were; given a value of the
\* field's width it leaves the value in the range, and given a value of any
\* other length it leaves the whole buffer as it was.  The ranges lie within
\* the 240-byte header and no two of them share a byte.
C18_SetterFrame ==
  /\ \A f \in FieldNames :
       /\ FieldRange(f).lo >= 0
       /\ FieldRange(f).lo + FieldRange(f).width <= HeaderSize
       /\ FieldRange(f).width = FieldWidth(f)
  /\ \A f, g \in FieldNames :
       f # g => \/ FieldRange(f).lo + FieldRange(f).width <= FieldRange(g).lo
                \/ FieldRange(g).lo + FieldRange(g).width <= FieldRange(f).lo
  /\ fieldOp.field # "none" =>
       LET r == FieldRange(fieldOp.field)
       IN  /\ Len(hdr) = Len(fieldOp.before)
           /\ \A k \in 1..Len(hdr) :
                (k <= r.lo \/ k > r.lo + r.width) => hdr[k] = fieldOp.before[k]
           /\ Len(fieldOp.value) = r.width =>
                SubSeq(hdr, r.lo + 1, r.lo + r.width) = fieldOp.value
           /\ Len(fieldOp.value) # r.width => hdr = fieldOp.before

\* C18 witness: all five fields hold the values their setters were given,
\* and the last setter call, with a timestamp one byte too long, changed
\* nothing.
C18_Witness ==
  /\ \A f \in FieldNames :
       \E v \in FieldValues(f) :
         /\ Len(v) = FieldWidth(f)
         /\ SubSeq(hdr, FieldRange(f).lo + 1, FieldRange(f).lo + FieldRange(f).width) = v
  /\ fieldOp.field = "timestamp"
  /\ Len(fieldOp.value) = 25
  /\ hdr = fieldOp.before

====
